---- MODULE Spec2Model ----
(***************************************************************************)
(* The context-propagating tool dispatcher of my_agent/containers.py       *)
(* (process_tool_call) together with the tool it serves, echo_deps of      *)
(* my_mcp/mcp_with_deps.py.                                                *)
(*                                                                         *)
(* Every dispatch is one call of the coroutine process_tool_call.  It      *)
(* builds the envelope {'deps': ctx.deps}, calls call_tool(name,           *)
(* tool_args, envelope) and awaits it; the value or the exception of that  *)
(* await is the value or the exception of the dispatch.  Dispatches are    *)
(* coroutines of one event loop: they interleave at their await points.    *)
(***************************************************************************)
EXTENDS Integers, FiniteSets, Sequences, TLC

\* Number of dispatches that may be in flight together.
MaxDispatches == 2

Dispatches == 1..MaxDispatches

-----------------------------------------------------------------------------
(* Values *)

\* Python's None: RunContext.deps when the run was given no deps (core.py:37).
NoneCtx == [t |-> "none"]

IntCtx(n) == [t |-> "int", v |-> n]

\* deps_type=int (myagent.py:13); 42 is the value of basic_query_test
\* (myagent.py:21), 1 a second session's value.
Contexts == {NoneCtx, IntCtx(1), IntCtx(42)}

\* The only tool of the server that carries process_tool_call
\* (containers.py:74-81 runs my_mcp/mcp_with_deps.py, whose one @mcp.tool()
\* is echo_deps).
Registry == {"echo_deps"}

ToolNames == Registry \cup {"unknown_tool"}

\* tool_args: dict[str, Any]; a mapping is a set of <<key, value>> pairs.
EmptyArgs == {}

Arguments == {EmptyArgs, {<<"n", 7>>}}

EchoMessage == "This is an echo message"

InfoMessage == "This is an info message"

\* Failures of the tool-calling mechanism itself.
MechanismFailures == {"Timeout", "MalformedArguments"}

NoRequest == [t |-> "none"]

NoCall == [t |-> "none"]

NoResult == [kind |-> "none"]

Returned(v) == [kind |-> "return", value |-> v]

Raised(e) == [kind |-> "raise", exc |-> e]

Cancelled == [kind |-> "cancelled"]

-----------------------------------------------------------------------------
VARIABLES
    pc,        \* pc[d]: where coroutine d of process_tool_call stands
    req,       \* req[d]: the (name, tool_args, ctx.deps) d was called with
    call,      \* call[d]: the arguments d handed to call_tool
    callSt,    \* callSt[d]: state of the call_tool awaitable d awaits
    callRes,   \* callRes[d]: what that awaitable completed with
    nCalls,    \* nCalls[d]: how many times d called call_tool
    exec,      \* exec[d]: where the tool execution serving d stands
    meta,      \* meta[d]: ctx.request_context.meta of that execution
    resp,      \* resp[d]: what the tool execution produced
    nRuns,     \* nRuns[d]: how many tool executions served d
    log,       \* log[d]: the log entries the tool execution serving d emitted
    outcome,   \* outcome[d]: what the caller of d received
    registry,  \* the names the server of the dispatcher resolves
    ctxDeps    \* ctxDeps[d]: the deps field of the RunContext d was given

vars == <<pc, req, call, callSt, callRes, nCalls, exec, meta, resp, nRuns,
          log, outcome, registry, ctxDeps>>

callVars == <<call, callSt, callRes, nCalls>>

\* The items API of my_api/fastapi-test.py.
VARIABLES
    items,       \* the module-level list items
    itemsMade,   \* the items created since the last clear_items, in order
    itemsResp    \* what the last request to the items API was answered with

itemsVars == <<items, itemsMade, itemsResp>>

NoResponse == [op |-> "none"]

ItemsInit ==
    /\ items = <<>>
    /\ itemsMade = <<>>
    /\ itemsResp = NoResponse

\* Number of POST /chat requests that may be in progress together.
MaxChats == 2

ChatRequests == 1..MaxChats

\* The chat endpoint of my_api/my_agent_api.py.
VARIABLES
    chatPc,      \* chatPc[r]: where the handler of request r stands
    chatQuery,   \* chatQuery[r]: request.query
    agentCalls,  \* agentCalls[r]: the queries r passed to agent.run_sync
    agentRun,    \* agentRun[r]: how the agent run of r ended
    chatResp     \* chatResp[r]: what the client of r received

chatVars == <<chatPc, chatQuery, agentCalls, agentRun, chatResp>>

ChatInit ==
    /\ chatPc = [r \in ChatRequests |-> "idle"]
    /\ chatQuery = [r \in ChatRequests |-> ""]
    /\ agentCalls = [r \in ChatRequests |-> <<>>]
    /\ agentRun = [r \in ChatRequests |-> NoResult]
    /\ chatResp = [r \in ChatRequests |-> NoResponse]

\* The chat page of my_ui/ui_main.py, one browser session.
VARIABLES
    messages,    \* st.session_state.messages
    uiPc,        \* "idle", or "calling" while the script waits for the API
    uiUncaught   \* the exception that ended the last script run, if any

uiVars == <<messages, uiPc, uiUncaught>>

NoException == [type |-> "none"]

UiInit ==
    /\ messages = <<>>
    /\ uiPc = "idle"
    /\ uiUncaught = NoException

\* Number of retrieve calls that may be in progress together.
MaxRetrieves == 2

Retrieves == 1..MaxRetrieves

\* The agent's retrieve tool (my_agent/core.py) and the chroma store it
\* shares with my_rag/rag_main.py.
VARIABLES
    store,       \* collection name -> number of documents, for what exists
    rPc,         \* rPc[r]: "idle", "found" (after the check), "done"
    rQuery,      \* rQuery[r]: the query of call r
    rResult      \* rResult[r]: what call r returned

retrieveVars == <<store, rPc, rQuery, rResult>>

RetrieveInit ==
    /\ store = <<>>
    /\ rPc = [r \in Retrieves |-> "idle"]
    /\ rQuery = [r \in Retrieves |-> ""]
    /\ rResult = [r \in Retrieves |-> NoResult]

\* Number of provider tool calls that may be in progress together.
MaxToolCalls == 2

ToolCalls == 1..MaxToolCalls

\* The tools of my_mcp/sleeper_fantasy.py and my-mcp/espn_fantasy.py, each
\* call with its one request to the upstream provider.
VARIABLES
    tPc,         \* tPc[c]: "idle", "requested", "done"
    tTool,       \* tTool[c]: the tool called and its argument
    tRequest,    \* tRequest[c]: the request sent to the provider
    tOutcome,    \* tOutcome[c]: what the provider call did
    tResult      \* tResult[c]: what the tool returned or raised

providerVars == <<tPc, tTool, tRequest, tOutcome, tResult>>

NoTool == [tool |-> "none"]

ProviderInit ==
    /\ tPc = [c \in ToolCalls |-> "idle"]
    /\ tTool = [c \in ToolCalls |-> NoTool]
    /\ tRequest = [c \in ToolCalls |-> NoRequest]
    /\ tOutcome = [c \in ToolCalls |-> NoResult]
    /\ tResult = [c \in ToolCalls |-> NoResult]

\* Number of tool invocations of the agent followed across its servers.
MaxInvocations == 2

Invocations == 1..MaxInvocations

\* The tool invocations of the agent built by Container (my_agent/containers.py),
\* across its MCP servers.
VARIABLES
    invPc,       \* invPc[i]: "idle", "sent", "done"
    inv,         \* inv[i]: server, tool, argument and the run's deps
    invCall,     \* invCall[i]: the request that reached the server
    invOutcome,  \* invOutcome[i]: what the tool's provider call did
    invRes       \* invRes[i]: what the tool returned or raised

containerVars == <<invPc, inv, invCall, invOutcome, invRes>>

ContainerInit ==
    /\ invPc = [i \in Invocations |-> "idle"]
    /\ inv = [i \in Invocations |-> NoTool]
    /\ invCall = [i \in Invocations |-> NoCall]
    /\ invOutcome = [i \in Invocations |-> NoResult]
    /\ invRes = [i \in Invocations |-> NoResult]

\* The ESPN tools that build their request from arguments, and
\* get_standings (my-mcp/espn_fantasy.py): the last call made.
VARIABLES
    espnCall,    \* the tool called and the arguments supplied
    espnParams,  \* the params passed to make_request
    espnOutcome, \* what the request did
    espnRes      \* what the tool returned or raised

espnVars == <<espnCall, espnParams, espnOutcome, espnRes>>

EspnInit ==
    /\ espnCall = NoTool
    /\ espnParams = NoRequest
    /\ espnOutcome = NoResult
    /\ espnRes = NoResult

\* What the steps of the dispatcher leave alone.
restVars == <<itemsVars, chatVars, uiVars, retrieveVars, providerVars,
             containerVars, espnVars>>

toolVars == <<exec, meta, resp, nRuns, log>>

Init ==
    /\ pc = [d \in Dispatches |-> "idle"]
    /\ req = [d \in Dispatches |-> NoRequest]
    /\ call = [d \in Dispatches |-> NoCall]
    /\ callSt = [d \in Dispatches |-> "none"]
    /\ callRes = [d \in Dispatches |-> NoResult]
    /\ nCalls = [d \in Dispatches |-> 0]
    /\ exec = [d \in Dispatches |-> "none"]
    /\ meta = [d \in Dispatches |-> NoCall]
    /\ resp = [d \in Dispatches |-> NoResult]
    /\ nRuns = [d \in Dispatches |-> 0]
    /\ log = [d \in Dispatches |-> <<>>]
    /\ outcome = [d \in Dispatches |-> NoResult]
    /\ registry = Registry
    /\ ctxDeps = [d \in Dispatches |-> NoRequest]
    /\ ItemsInit
    /\ ChatInit
    /\ UiInit
    /\ RetrieveInit
    /\ ProviderInit
    /\ ContainerInit
    /\ EspnInit

-----------------------------------------------------------------------------
(* process_tool_call, up to its await *)

\* A dispatcher that attaches a default instead of ctx.deps.
EnvelopeDefault(deps) == [deps |-> NoneCtx]

\* A dispatcher that keeps the context in one place shared by all dispatches:
\* a dispatch in flight decides what every later envelope carries.
EnvelopeShared(deps) ==
    [deps |-> IF \E e \in Dispatches : pc[e] = "awaiting"
              THEN req[CHOOSE e \in Dispatches : pc[e] = "awaiting"].ctx
              ELSE deps]

\* {'deps': ctx.deps}
Envelope(deps) == [deps |-> deps]

\* A dispatcher that forwards the envelope but not the arguments.
CallToolArgsDropped(name, tool_args, deps) ==
    [name |-> name, args |-> EmptyArgs, meta |-> Envelope(deps)]

\* call_tool(name, tool_args, {'deps': ctx.deps})
CallToolArgs(name, tool_args, deps) ==
    [name |-> name, args |-> tool_args, meta |-> Envelope(deps)]

\* A dispatcher with a result cache keyed by (name, tool_args, deps): a
\* request equal to one already answered is answered from the cache.
process_tool_call_cached(d, name, tool_args, deps) ==
    LET key == [name |-> name, args |-> tool_args, ctx |-> deps]
        hits == {e \in Dispatches : pc[e] = "returned" /\ req[e] = key}
    IN  /\ pc[d] = "idle"
        /\ req' = [req EXCEPT ![d] = key]
        /\ ctxDeps' = [ctxDeps EXCEPT ![d] = deps]
        /\ IF hits # {}
           THEN /\ pc' = [pc EXCEPT ![d] = "returned"]
                /\ outcome' = [outcome EXCEPT ![d] = outcome[CHOOSE e \in hits : TRUE]]
                /\ UNCHANGED <<restVars, registry, callVars, toolVars>>
           ELSE /\ pc' = [pc EXCEPT ![d] = "awaiting"]
                /\ call' = [call EXCEPT ![d] = CallToolArgs(name, tool_args, deps)]
                /\ callSt' = [callSt EXCEPT ![d] = "pending"]
                /\ nCalls' = [nCalls EXCEPT ![d] = @ + 1]
                /\ UNCHANGED <<restVars, registry, callRes, toolVars, outcome>>

\* A dispatcher that registers the name it is asked for and consumes the
\* context it forwards.
process_tool_call_registering(d, name, tool_args, deps) ==
    /\ pc[d] = "idle"
    /\ pc' = [pc EXCEPT ![d] = "awaiting"]
    /\ req' = [req EXCEPT ![d] = [name |-> name, args |-> tool_args, ctx |-> deps]]
    /\ ctxDeps' = [ctxDeps EXCEPT ![d] = deps]
    /\ registry' = registry \cup {name}
    /\ call' = [call EXCEPT ![d] = CallToolArgs(name, tool_args, deps)]
    /\ callSt' = [callSt EXCEPT ![d] = "pending"]
    /\ nCalls' = [nCalls EXCEPT ![d] = @ + 1]
    /\ UNCHANGED <<restVars, callRes, toolVars, outcome>>

\* The caller (the agent run) calls process_tool_call(ctx, call_tool, name,
\* tool_args) with ctx.deps = deps.  The coroutine runs to its only await:
\* it has built the envelope and called call_tool once.
process_tool_call(d, name, tool_args, deps) ==
    /\ pc[d] = "idle"
    /\ pc' = [pc EXCEPT ![d] = "awaiting"]
    /\ req' = [req EXCEPT ![d] = [name |-> name, args |-> tool_args, ctx |-> deps]]
    /\ ctxDeps' = [ctxDeps EXCEPT ![d] = deps]
    /\ call' = [call EXCEPT ![d] = CallToolArgs(name, tool_args, deps)]
    /\ callSt' = [callSt EXCEPT ![d] = "pending"]
    /\ nCalls' = [nCalls EXCEPT ![d] = @ + 1]
    /\ UNCHANGED <<restVars, registry, callRes, toolVars, outcome>>

-----------------------------------------------------------------------------
(* The tool-calling mechanism behind call_tool: the server's registry *)

\* The name resolves: the server starts the tool, and the envelope of the
\* call is the request context's meta of this execution.  A request whose
\* client-side call was cancelled may already be on its way: what the server
\* does with it is not decided by process_tool_call, so it may still run.
ToolStart(d) ==
    /\ callSt[d] \in {"pending", "cancelled"}
    /\ exec[d] = "none"
    /\ call[d].name \in registry
    /\ exec' = [exec EXCEPT ![d] = "started"]
    /\ meta' = [meta EXCEPT ![d] = call[d].meta]
    /\ nRuns' = [nRuns EXCEPT ![d] = @ + 1]
    /\ UNCHANGED <<restVars, registry, ctxDeps, pc, req, callVars, resp, log, outcome>>

\* The name does not resolve: the call fails with ToolNotFound and no tool
\* is started.
ToolNotFound(d) ==
    /\ callSt[d] = "pending"
    /\ call[d].name \notin registry
    /\ callSt' = [callSt EXCEPT ![d] = "failed"]
    /\ callRes' = [callRes EXCEPT ![d] = Raised("ToolNotFound")]
    /\ UNCHANGED <<restVars, registry, ctxDeps, pc, req, call, nCalls, toolVars, outcome>>

\* The mechanism itself fails while the call is pending: a timeout at any
\* moment (a tool execution already started is not undone), malformed
\* arguments before the tool is started.
MechanismFail(d, e) ==
    /\ callSt[d] = "pending"
    /\ call[d].name \in registry
    /\ e = "MalformedArguments" => exec[d] = "none"
    /\ callSt' = [callSt EXCEPT ![d] = "failed"]
    /\ callRes' = [callRes EXCEPT ![d] = Raised(e)]
    /\ UNCHANGED <<restVars, registry, ctxDeps, pc, req, call, nCalls, toolVars, outcome>>

\* The mechanism hands what the tool produced to the pending call.
Deliver(d) ==
    /\ callSt[d] = "pending"
    /\ exec[d] \in {"returned", "raised"}
    /\ callSt' = [callSt EXCEPT ![d] = IF resp[d].kind = "return" THEN "done" ELSE "failed"]
    /\ callRes' = [callRes EXCEPT ![d] = resp[d]]
    /\ UNCHANGED <<restVars, registry, ctxDeps, pc, req, call, nCalls, toolVars, outcome>>

-----------------------------------------------------------------------------
(* echo_deps *)

\* await ctx.info('This is an info message')
ToolInfo(d) ==
    /\ exec[d] = "started"
    /\ exec' = [exec EXCEPT ![d] = "informed"]
    /\ log' = [log EXCEPT ![d] = Append(@, InfoMessage)]
    /\ UNCHANGED <<restVars, registry, ctxDeps, pc, req, callVars, meta, resp, nRuns, outcome>>

\* The await of ctx.info raises (the session to the client is gone): the
\* tool fails during its own execution.
ToolInfoFails(d) ==
    /\ exec[d] = "started"
    /\ exec' = [exec EXCEPT ![d] = "raised"]
    /\ resp' = [resp EXCEPT ![d] = Raised("ToolError")]
    /\ UNCHANGED <<restVars, registry, ctxDeps, pc, req, callVars, meta, nRuns, log, outcome>>

\* A tool that answers without the context it was given.
EchoResultNoDeps(deps) == [echo |-> EchoMessage, deps |-> NoneCtx]

\* {'echo': 'This is an echo message', 'deps': deps}
EchoResult(deps) == [echo |-> EchoMessage, deps |-> deps]

\* deps = getattr(ctx.request_context.meta, 'deps'): no default, so a meta
\* without the attribute raises AttributeError.
echo_deps(m) ==
    IF "deps" \in DOMAIN m
    THEN Returned(EchoResult(m.deps))
    ELSE Raised("AttributeError")

ToolReturn(d) ==
    /\ exec[d] = "informed"
    /\ resp' = [resp EXCEPT ![d] = echo_deps(meta[d])]
    /\ exec' = [exec EXCEPT ![d] = IF echo_deps(meta[d]).kind = "return"
                                   THEN "returned" ELSE "raised"]
    /\ UNCHANGED <<restVars, registry, ctxDeps, pc, req, callVars, meta, nRuns, log, outcome>>

-----------------------------------------------------------------------------
(* process_tool_call, from its await on *)

\* A dispatcher that catches the failure of call_tool and raises its own.
ResumeWrapped(d) ==
    /\ pc[d] = "awaiting"
    /\ callSt[d] \in {"done", "failed"}
    /\ pc' = [pc EXCEPT ![d] = IF callSt[d] = "done" THEN "returned" ELSE "raised"]
    /\ outcome' = [outcome EXCEPT ![d] = IF callSt[d] = "done"
                                         THEN callRes[d]
                                         ELSE Raised("DispatchError")]
    /\ UNCHANGED <<restVars, registry, ctxDeps, req, callVars, toolVars>>

\* A dispatcher that catches the failure of call_tool and returns None.
ResumeSwallowed(d) ==
    /\ pc[d] = "awaiting"
    /\ callSt[d] \in {"done", "failed"}
    /\ pc' = [pc EXCEPT ![d] = "returned"]
    /\ outcome' = [outcome EXCEPT ![d] = IF callSt[d] = "done"
                                         THEN callRes[d]
                                         ELSE Returned(NoneCtx)]
    /\ UNCHANGED <<restVars, registry, ctxDeps, req, callVars, toolVars>>

\* A dispatcher that calls call_tool once more when the first call failed.
ResumeRetried(d) ==
    /\ pc[d] = "awaiting"
    /\ callSt[d] \in {"done", "failed"}
    /\ IF callSt[d] = "failed" /\ nCalls[d] < 2
       THEN /\ callSt' = [callSt EXCEPT ![d] = "pending"]
            /\ callRes' = [callRes EXCEPT ![d] = NoResult]
            /\ nCalls' = [nCalls EXCEPT ![d] = @ + 1]
            /\ UNCHANGED <<restVars, registry, ctxDeps, pc, req, call, toolVars, outcome>>
       ELSE /\ pc' = [pc EXCEPT ![d] = IF callSt[d] = "done" THEN "returned" ELSE "raised"]
            /\ outcome' = [outcome EXCEPT ![d] = callRes[d]]
            /\ UNCHANGED <<restVars, registry, ctxDeps, req, callVars, toolVars>>

\* A dispatcher that holds one lock across its await: a dispatch whose call
\* completed continues only when no other dispatch is suspended.
ResumeSerialised(d) ==
    /\ pc[d] = "awaiting"
    /\ callSt[d] \in {"done", "failed"}
    /\ \A e \in Dispatches \ {d} : ~(pc[e] = "awaiting" /\ callSt[e] = "pending")
    /\ pc' = [pc EXCEPT ![d] = IF callSt[d] = "done" THEN "returned" ELSE "raised"]
    /\ outcome' = [outcome EXCEPT ![d] = callRes[d]]
    /\ UNCHANGED <<restVars, registry, ctxDeps, req, callVars, toolVars>>

\* A dispatcher whose failure aborts the session: when the call of one
\* dispatch failed, every other dispatch still in flight is cancelled.
ResumeAborting(d) ==
    /\ pc[d] = "awaiting"
    /\ callSt[d] \in {"done", "failed"}
    /\ pc' = [e \in Dispatches |->
                 IF e = d THEN (IF callSt[d] = "done" THEN "returned" ELSE "raised")
                 ELSE IF callSt[d] = "failed" /\ pc[e] = "awaiting" THEN "cancelled"
                 ELSE pc[e]]
    /\ outcome' = [e \in Dispatches |->
                      IF e = d THEN callRes[d]
                      ELSE IF callSt[d] = "failed" /\ pc[e] = "awaiting" THEN Cancelled
                      ELSE outcome[e]]
    /\ UNCHANGED <<restVars, registry, ctxDeps, req, callVars, toolVars>>

\* return await call_tool(...): the awaited call completed, with a value or
\* with an exception; the coroutine ends with the same.
Resume(d) ==
    /\ pc[d] = "awaiting"
    /\ callSt[d] \in {"done", "failed"}
    /\ pc' = [pc EXCEPT ![d] = IF callSt[d] = "done" THEN "returned" ELSE "raised"]
    /\ outcome' = [outcome EXCEPT ![d] = callRes[d]]
    /\ UNCHANGED <<restVars, registry, ctxDeps, req, callVars, toolVars>>

\* A dispatcher that awaits call_tool in a task of its own (or shielded):
\* cancelling the dispatch leaves the call pending.
CancelOrphaning(d) ==
    /\ pc[d] = "awaiting"
    /\ pc' = [pc EXCEPT ![d] = "cancelled"]
    /\ outcome' = [outcome EXCEPT ![d] = Cancelled]
    /\ UNCHANGED <<restVars, registry, ctxDeps, req, callVars, toolVars>>

\* The caller cancels the coroutine while it is suspended at the await:
\* CancelledError is thrown into the awaited call_tool and, nothing catching
\* it, out of process_tool_call.
Cancel(d) ==
    /\ pc[d] = "awaiting"
    /\ pc' = [pc EXCEPT ![d] = "cancelled"]
    /\ callSt' = [callSt EXCEPT ![d] = IF @ = "pending" THEN "cancelled" ELSE @]
    /\ outcome' = [outcome EXCEPT ![d] = Cancelled]
    /\ UNCHANGED <<restVars, registry, ctxDeps, req, call, callRes, nCalls, toolVars>>

-----------------------------------------------------------------------------
Next ==
    \E d \in Dispatches :
        \/ \E name \in ToolNames, tool_args \in Arguments, deps \in Contexts :
               process_tool_call(d, name, tool_args, deps)
        \/ ToolStart(d)
        \/ ToolNotFound(d)
        \/ \E e \in MechanismFailures : MechanismFail(d, e)
        \/ Deliver(d)
        \/ ToolInfo(d)
        \/ ToolInfoFails(d)
        \/ ToolReturn(d)
        \/ Resume(d)
        \/ Cancel(d)

Spec == Init /\ [][Next]_vars
\* The event loop runs every coroutine that is ready to continue: a
\* dispatch whose awaited call completed is resumed.
FairSpec == Spec /\ \A d \in Dispatches : WF_vars(Resume(d))

-----------------------------------------------------------------------------
(* Properties *)

Called(d) == pc[d] # "idle"

Suspended(d) == pc[d] = "awaiting" /\ callSt[d] = "pending"

\* C1: for every dispatch and every session_context, the null one included,
\* the envelope handed to call_tool has the key 'deps' and its value is the
\* ctx.deps of that same dispatch.
C1_EnvelopeCarriesOwnDeps ==
    \A d \in Dispatches :
        Called(d) =>
            /\ "deps" \in DOMAIN call[d].meta
            /\ call[d].meta.deps = req[d].ctx

\* The null context and a non-null one have both been handed over.
C1_Witness ==
    \E d, e \in Dispatches :
        /\ Called(d) /\ req[d].ctx = NoneCtx /\ call[d].meta.deps = NoneCtx
        /\ Called(e) /\ req[e].ctx = IntCtx(42) /\ call[e].meta.deps = IntCtx(42)

\* C2: a dispatch of a registered tool returns exactly what the tool returns
\* when called directly with session_context under 'deps'; name and arguments
\* reach call_tool unchanged and the tool's result reaches the caller
\* unchanged.
C2_DispatchEqualsDirectCall ==
    \A d \in Dispatches :
        /\ Called(d) =>
              /\ call[d].name = req[d].name
              /\ call[d].args = req[d].args
        /\ pc[d] = "returned" =>
              /\ req[d].name \in Registry
              /\ outcome[d] = echo_deps([deps |-> req[d].ctx])
              /\ outcome[d] = resp[d]

\* A dispatch with non-empty arguments has returned its tool's result.
C2_Witness ==
    \E d \in Dispatches :
        /\ pc[d] = "returned"
        /\ req[d].args # EmptyArgs
        /\ call[d].args = req[d].args
        /\ outcome[d] = Returned([echo |-> EchoMessage, deps |-> req[d].ctx])

\* C3: with several dispatches in flight and interleaved in any order, each
\* tool execution observes only the session_context of its own dispatch and
\* each caller receives the result computed from its own context.
C3_NoCrossTalk ==
    \A d \in Dispatches :
        /\ exec[d] # "none" => meta[d] = [deps |-> req[d].ctx]
        /\ exec[d] = "returned" => resp[d].value.deps = req[d].ctx
        /\ pc[d] = "returned" => outcome[d].value.deps = req[d].ctx

\* Contexts 1 and 42 in flight together: the tool of one has answered with
\* its own context while the tool of the other is still running.
C3_Witness ==
    \E d, e \in Dispatches :
        /\ Called(d) /\ req[d].ctx = IntCtx(1)
        /\ Called(e) /\ req[e].ctx = IntCtx(42)
        /\ exec[d] = "returned" /\ resp[d].value.deps = IntCtx(1)
        /\ pc[e] = "awaiting" /\ exec[e] = "informed"
        /\ meta[e].deps = IntCtx(42)

\* C4: dispatching echo_deps with empty arguments and context 42 yields
\* {'echo': 'This is an echo message', 'deps': 42}; for any context c the
\* result is the fixed echo message together with deps = c.
C4_EchoScenario ==
    \A d \in Dispatches :
        pc[d] = "returned" /\ req[d].name = "echo_deps" =>
            /\ outcome[d].kind = "return"
            /\ outcome[d].value.echo = "This is an echo message"
            /\ outcome[d].value.deps = req[d].ctx
            /\ DOMAIN outcome[d].value = {"echo", "deps"}
            /\ (req[d].args = EmptyArgs /\ req[d].ctx = IntCtx(42)) =>
                  outcome[d].value =
                      [echo |-> "This is an echo message", deps |-> IntCtx(42)]

\* dispatch("echo_deps", {}, 42) has returned.
C4_Witness ==
    \E d \in Dispatches :
        /\ pc[d] = "returned"
        /\ req[d] = [name |-> "echo_deps", args |-> EmptyArgs, ctx |-> IntCtx(42)]
        /\ outcome[d].value.deps = IntCtx(42)

\* C5: when the tool or the mechanism fails, the dispatch ends with that same
\* failure: not a normal result, not another error kind, and the tool is not
\* invoked again.
C5_FailurePropagatedUnchanged ==
    \A d \in Dispatches :
        /\ callSt[d] = "failed" /\ pc[d] \notin {"awaiting", "cancelled"} =>
              /\ pc[d] = "raised"
              /\ outcome[d] = callRes[d]
              /\ outcome[d].kind = "raise"
        /\ pc[d] = "raised" => callSt[d] = "failed"
        /\ callSt[d] = "failed" => nCalls[d] = 1 /\ nRuns[d] <= 1

\* A failure of the tool and a failure of the mechanism have both reached
\* their callers.
C5_Witness ==
    \E d, e \in Dispatches :
        /\ pc[d] = "raised" /\ exec[d] = "raised"
        /\ outcome[d] = Raised("ToolError") /\ outcome[d] = resp[d]
        /\ pc[e] = "raised" /\ outcome[e] = Raised("Timeout")

\* C6: a dispatch of an unregistered name fails with ToolNotFound, the
\* failure reaches the caller, no tool is executed and nothing is retried.
C6_UnknownToolFails ==
    \A d \in Dispatches :
        Called(d) /\ req[d].name \notin Registry =>
            /\ exec[d] = "none" /\ nRuns[d] = 0
            /\ nCalls[d] = 1
            /\ callSt[d] \in {"done", "failed"} => callRes[d] = Raised("ToolNotFound")
            /\ pc[d] \in {"returned", "raised"} =>
                  /\ pc[d] = "raised"
                  /\ outcome[d] = Raised("ToolNotFound")

\* dispatch('unknown_tool', {}, None) has failed at its caller.
C6_Witness ==
    \E d \in Dispatches :
        /\ req[d] = [name |-> "unknown_tool", args |-> EmptyArgs, ctx |-> NoneCtx]
        /\ pc[d] = "raised"
        /\ outcome[d] = Raised("ToolNotFound")
        /\ nRuns[d] = 0

\* C7: each call of process_tool_call makes exactly one call of call_tool,
\* whether that call succeeds, fails or is cancelled.
C7_ExactlyOneCallTool ==
    \A d \in Dispatches :
        /\ Called(d) => nCalls[d] = 1
        /\ ~Called(d) => nCalls[d] = 0

\* One dispatch ended with a result and another with a failure, each after
\* one call of call_tool.
C7_Witness ==
    \E d, e \in Dispatches :
        /\ pc[d] = "returned" /\ nCalls[d] = 1
        /\ pc[e] = "raised" /\ nCalls[e] = 1

\* C8: two dispatches with the same name, arguments and context are two
\* independent tool invocations: every dispatch that returns had a call and
\* a tool execution of its own and returns what that execution produced,
\* with its own context, whatever was dispatched before.
C8_NoHiddenCache ==
    \A d \in Dispatches :
        pc[d] = "returned" =>
            /\ nCalls[d] = 1
            /\ nRuns[d] = 1
            /\ exec[d] = "returned"
            /\ outcome[d] = resp[d]
            /\ call[d].meta.deps = req[d].ctx

\* Two equal requests have both returned, each from its own tool execution.
C8_Witness ==
    \E d, e \in Dispatches :
        /\ d # e
        /\ req[d] = req[e]
        /\ pc[d] = "returned" /\ pc[e] = "returned"
        /\ nRuns[d] = 1 /\ nRuns[e] = 1

\* C9: a dispatch cancelled while suspended in call_tool takes the call with
\* it (the call is cancelled, not left pending) and delivers no result,
\* neither the tool's nor a part of it.
C9_CancellationPropagates ==
    \A d \in Dispatches :
        pc[d] = "cancelled" =>
            /\ callSt[d] # "pending"
            /\ outcome[d] = Cancelled
            /\ "value" \notin DOMAIN outcome[d]

\* A dispatch was cancelled while its tool was running.
C9_Witness ==
    \E d \in Dispatches :
        /\ pc[d] = "cancelled"
        /\ callSt[d] = "cancelled"
        /\ exec[d] = "informed"

\* C10: while a dispatch is suspended in its tool call, every other dispatch
\* can take its next step (start; continue once its call completed), and
\* every dispatch whose call completed eventually ends, whatever stays
\* suspended.
C10_SuspendedNeverBlocks ==
    /\ [](\A d, e \in Dispatches :
             d # e /\ Suspended(d) =>
                 /\ pc[e] = "idle" =>
                       ENABLED process_tool_call(e, "echo_deps", EmptyArgs, NoneCtx)
                 /\ (pc[e] = "awaiting" /\ callSt[e] \in {"done", "failed"}) =>
                       ENABLED Resume(e)
                 /\ (callSt[e] = "pending" /\ exec[e] = "none") =>
                       ENABLED (ToolStart(e) \/ ToolNotFound(e))
                 /\ exec[e] = "informed" => ENABLED ToolReturn(e))
    /\ \A d \in Dispatches :
           (pc[d] = "awaiting" /\ callSt[d] \in {"done", "failed"})
               ~> (pc[d] \in {"returned", "raised", "cancelled"})

\* One dispatch has returned its result while another, started before it
\* finished, is still suspended.
C10_Witness ==
    \E d, e \in Dispatches :
        /\ d # e
        /\ Suspended(d)
        /\ pc[e] = "returned"
        /\ exec[e] = "returned"

\* Everything the model holds about dispatch d.
Footprint(d) ==
    <<pc[d], req[d], call[d], callSt[d], callRes[d], nCalls[d], exec[d],
      meta[d], resp[d], nRuns[d], log[d], outcome[d], ctxDeps[d]>>

\* C11: no step of a dispatch, successful or failed, changes the tool
\* registry or the session_context of a dispatch under way: both are after
\* the step what they were before it.
C11_DispatchLeavesSharedStateAlone ==
    [][/\ registry' = registry
       /\ \A d \in Dispatches : Called(d) => ctxDeps'[d] = ctxDeps[d]]_vars

\* A successful and a failed dispatch have ended; the registry and the
\* contexts are what they were.
C11_Witness ==
    \E d, e \in Dispatches :
        /\ pc[d] = "returned" /\ pc[e] = "raised"
        /\ registry = {"echo_deps"}
        /\ ctxDeps[d] = req[d].ctx /\ ctxDeps[e] = req[e].ctx
        /\ ctxDeps[d] # NoneCtx

\* C13: the info entry is emitted before the tool result is produced, and
\* the outcome of the tool is what it is without the entry: the echo result
\* for its context, whether or not the entry was emitted or delivered.
C13_LogNeverAltersOutcome ==
    \A d \in Dispatches :
        /\ exec[d] = "returned" => log[d] = <<InfoMessage>>
        /\ exec[d] \in {"returned", "raised"} =>
              resp[d] = Returned([echo |-> EchoMessage, deps |-> meta[d].deps])

-----------------------------------------------------------------------------
(* The items API: my_api/fastapi-test.py *)

\* Longest items list the model builds.
MaxItems == 3

\* class Item: text (at most 10 characters), is_done = False by default.
Item(text, is_done) == [text |-> text, is_done |-> is_done]

ItemValues == {Item("milk", FALSE), Item("eggs", FALSE), Item("milk", TRUE)}

\* The integers a request may carry as item_id or limit.
RequestInts == (0 - 2)..(MaxItems + 1)

Min(a, b) == IF a < b THEN a ELSE b

Max(a, b) == IF a > b THEN a ELSE b

\* s[0:limit] of a Python list: a negative stop counts from the end.
SliceTo(s, limit) ==
    SubSeq(s, 1, IF limit < 0 THEN Max(Len(s) + limit, 0) ELSE Min(limit, Len(s)))

itemsOthers == <<vars, chatVars, uiVars, retrieveVars, providerVars, containerVars,
    espnVars>>

\* A create_item that puts the new item first.
create_item_first(item) ==
    /\ Len(items) < MaxItems
    /\ items' = <<item>> \o items
    /\ itemsMade' = Append(itemsMade, item)
    /\ itemsResp' = [op |-> "create_item", status |-> 200, item |-> item,
                     body |-> items']
    /\ UNCHANGED itemsOthers

\* POST /items: items.append(item); return items
create_item(item) ==
    /\ Len(items) < MaxItems
    /\ items' = Append(items, item)
    /\ itemsMade' = Append(itemsMade, item)
    /\ itemsResp' = [op |-> "create_item", status |-> 200, item |-> item,
                     body |-> items']
    /\ UNCHANGED itemsOthers

\* GET /items: return items[0:limit]
list_items(limit) ==
    /\ itemsResp' = [op |-> "list_items", status |-> 200, limit |-> limit,
                     body |-> SliceTo(items, limit)]
    /\ UNCHANGED <<items, itemsMade, itemsOthers>>

\* GET /clear-items: items.clear()
clear_items ==
    /\ items' = <<>>
    /\ itemsMade' = <<>>
    /\ itemsResp' = [op |-> "clear_items", status |-> 200,
                     body |-> "Items list cleared successfully"]
    /\ UNCHANGED itemsOthers

\* The detail of the 404: f"Item id {item_id} out of range (valid range
\* [0-{len(items)}])", kept as the three numbers it prints.
OutOfRangeDetail(item_id) == [item_id |-> item_id, lo |-> 0, hi |-> Len(items)]

\* GET /items/{item_id}
get_item(item_id) ==
    /\ itemsResp' =
           IF item_id < Len(items) /\ item_id >= 0
           THEN [op |-> "get_item", status |-> 200, item_id |-> item_id,
                 body |-> items[item_id + 1]]
           ELSE [op |-> "get_item", status |-> 404, item_id |-> item_id,
                 detail |-> OutOfRangeDetail(item_id)]
    /\ UNCHANGED <<items, itemsMade, itemsOthers>>

ItemsNext ==
    \/ \E item \in ItemValues : create_item(item)
    \/ \E limit \in RequestInts : list_items(limit)
    \/ clear_items
    \/ \E item_id \in RequestInts : get_item(item_id)

ItemsSpec == Init /\ [][ItemsNext]_<<vars, restVars>>

\* C19: after any sequence of calls the list is the items created since the
\* last clear_items, in creation order: create_item appends exactly one item
\* at the end and returns the whole list, clear_items empties the list,
\* list_items and get_item (successful or failing) leave it unchanged.
C19_ItemsAreCreatedSinceClear ==
    /\ [](items = itemsMade)
    /\ [][/\ itemsResp'.op = "create_item" =>
                /\ items' = Append(items, itemsResp'.item)
                /\ itemsResp'.body = items'
          /\ itemsResp'.op = "clear_items" => items' = <<>>
          /\ itemsResp'.op \in {"list_items", "get_item"} => items' = items]_itemsVars

\* Two different items were created after a clear and a failing get_item
\* followed.
C19_Witness ==
    /\ Len(items) = 2
    /\ items[1] # items[2]
    /\ items = itemsMade
    /\ itemsResp.op = "get_item" /\ itemsResp.status = 404

\* C20: get_item(item_id) returns items[item_id] exactly when
\* 0 <= item_id < len(items) and otherwise answers 404; the valid range its
\* 404 detail names is exactly the set of ids for which get_item succeeds.
C20_GetItemRange ==
    itemsResp.op = "get_item" =>
        /\ itemsResp.status = 200 <=>
               (0 <= itemsResp.item_id /\ itemsResp.item_id < Len(items))
        /\ itemsResp.status = 200 => itemsResp.body = items[itemsResp.item_id + 1]
        /\ itemsResp.status = 404 =>
               itemsResp.detail.lo..itemsResp.detail.hi =
                   {i \in RequestInts : 0 <= i /\ i < Len(items)}

\* C21: for every integer limit and every state of the list, list_items(limit)
\* returns the first min(limit, len(items)) items in creation order (none
\* when that is not positive), and never more than limit items.
C21_ListItemsFirstMin ==
    itemsResp.op = "list_items" =>
        /\ itemsResp.body =
               SubSeq(items, 1, Max(0, Min(itemsResp.limit, Len(items))))
        /\ Len(itemsResp.body) <= Max(0, itemsResp.limit)

-----------------------------------------------------------------------------
(* The chat endpoint: my_api/my_agent_api.py *)

Queries == {"hello", "What is the HR policy?"}

\* response.output of a run that succeeds.
AgentOutputs == {"Hi!", ""}

\* What a run that fails raises: an Exception with its arguments.
AgentErrors ==
    {[type |-> "UnexpectedModelBehavior", args |-> <<"Exceeded maximum retries">>],
     [type |-> "TimeoutError", args |-> <<>>]}

\* str(e) of an exception: its one argument, or '' when it has none.
Str(e) == IF e.args = <<>> THEN "" ELSE e.args[1]

chatOthers == <<vars, itemsVars, uiVars, retrieveVars, providerVars, containerVars,
    espnVars>>

\* The handler is entered and calls myagent.agent.run_sync(request.query).
chat_call(r, query) ==
    /\ chatPc[r] = "idle"
    /\ chatPc' = [chatPc EXCEPT ![r] = "running"]
    /\ chatQuery' = [chatQuery EXCEPT ![r] = query]
    /\ agentCalls' = [agentCalls EXCEPT ![r] = Append(@, query)]
    /\ UNCHANGED <<agentRun, chatResp, chatOthers>>

\* An endpoint that answers every failure with the same text.
ChatResponseGeneric(run) ==
    IF run.kind = "return"
    THEN [status |-> 200, body |-> [response |-> run.value]]
    ELSE [status |-> 500, detail |-> "Internal Server Error"]

\* return {"response": response.output}, or
\* except Exception as e: raise HTTPException(status_code=500, detail=str(e))
ChatResponse(run) ==
    IF run.kind = "return"
    THEN [status |-> 200, body |-> [response |-> run.value]]
    ELSE [status |-> 500, detail |-> Str(run.exc)]

\* run_sync returns or raises, and the handler answers.
chat_answer(r, run) ==
    /\ chatPc[r] = "running"
    /\ chatPc' = [chatPc EXCEPT ![r] = "done"]
    /\ agentRun' = [agentRun EXCEPT ![r] = run]
    /\ chatResp' = [chatResp EXCEPT ![r] = ChatResponse(run)]
    /\ UNCHANGED <<chatQuery, agentCalls, chatOthers>>

ChatNext ==
    \E r \in ChatRequests :
        \/ \E query \in Queries : chat_call(r, query)
        \/ \E out \in AgentOutputs : chat_answer(r, Returned(out))
        \/ \E err \in AgentErrors : chat_answer(r, Raised(err))

ChatSpec == Init /\ [][ChatNext]_<<vars, restVars>>

\* C14: every POST /chat passes its query to the agent exactly once and is
\* answered with {'response': <agent output>} when the run succeeds, or with
\* status 500 and the text of the raised exception as detail when it raises;
\* the exception reaches the client in no other form.
C14_ChatAnswers ==
    \A r \in ChatRequests :
        /\ chatPc[r] # "idle" => agentCalls[r] = <<chatQuery[r]>>
        /\ chatPc[r] = "idle" => agentCalls[r] = <<>>
        /\ chatPc[r] = "done" =>
              /\ agentRun[r].kind = "return" =>
                    chatResp[r] = [status |-> 200,
                                   body |-> [response |-> agentRun[r].value]]
              /\ agentRun[r].kind = "raise" =>
                    /\ chatResp[r].status = 500
                    /\ DOMAIN chatResp[r] = {"status", "detail"}
                    /\ agentRun[r].exc.args # <<>> =>
                          chatResp[r].detail = agentRun[r].exc.args[1]
                    /\ agentRun[r].exc.args = <<>> => chatResp[r].detail = ""

\* One request was answered with the agent's output and another with the
\* text of the exception its run raised.
C14_Witness ==
    \E r, q \in ChatRequests :
        /\ chatPc[r] = "done" /\ chatResp[r] = [status |-> 200, body |-> [response |-> "Hi!"]]
        /\ chatPc[q] = "done" /\ chatResp[q] = [status |-> 500, detail |-> "Exceeded maximum retries"]

-----------------------------------------------------------------------------
(* The chat page: my_ui/ui_main.py *)

\* The history is followed up to the length MaxPrompts answered prompts give.
MaxPrompts == 2

Prompts == {"hi", "standings?"}

Message(role, content) == [role |-> role, content |-> content]

\* What requests.post and raise_for_status do for one prompt: a 2xx answer
\* with its JSON body, or one of the exceptions of requests.
ApiOutcomes ==
    {[kind |-> "ok", json |-> [response |-> "Hello!"]],
     [kind |-> "ok", json |-> [detail |-> "Not Found"]],
     [kind |-> "HTTPError", text |-> "500 Server Error"],
     [kind |-> "Timeout", text |-> "Read timed out."],
     [kind |-> "ConnectionError", text |-> "Connection refused"]}

\* The classes caught by except requests.exceptions.RequestException.
RequestExceptions == {"HTTPError", "Timeout", "ConnectionError"}

ErrorText(e) == "Error connecting to agent: " \o e

uiOthers == <<vars, itemsVars, chatVars, retrieveVars, providerVars, containerVars,
    espnVars>>

\* The user submits a prompt: the script appends the user message and posts
\* the query.
ui_prompt(prompt) ==
    /\ uiPc = "idle"
    /\ Len(messages) < 2 * MaxPrompts - 1
    /\ messages' = Append(messages, Message("user", prompt))
    /\ uiPc' = "calling"
    /\ uiUncaught' = NoException
    /\ UNCHANGED uiOthers

\* The try block: result is Returned(text), or Raised(exception) for what
\* the except clause does not catch.
TryPost(o) ==
    IF o.kind \in RequestExceptions
    THEN Returned(ErrorText(o.text))
    ELSE IF "response" \in DOMAIN o.json
         THEN Returned(o.json.response)
         ELSE Raised([type |-> "KeyError", args |-> <<"response">>])

\* The API call ends and the script run finishes: with the assistant message
\* appended, or with the uncaught exception.
ui_answer(o) ==
    /\ uiPc = "calling"
    /\ uiPc' = "idle"
    /\ LET result == TryPost(o)
       IN  IF result.kind = "return"
           THEN /\ messages' = Append(messages, Message("assistant", result.value))
                /\ uiUncaught' = NoException
           ELSE /\ messages' = messages
                /\ uiUncaught' = result.exc
    /\ UNCHANGED uiOthers

UiNext ==
    \/ \E prompt \in Prompts : ui_prompt(prompt)
    \/ \E o \in ApiOutcomes : ui_answer(o)

UiSpec == Init /\ [][UiNext]_<<vars, restVars>>

\* C18: after any sequence of prompts, whatever the API call did for each,
\* the history has even length and alternates user, assistant.
C18_HistoryAlternates ==
    uiPc = "idle" =>
        /\ Len(messages) % 2 = 0
        /\ \A i \in 1..Len(messages) :
              messages[i].role = IF i % 2 = 1 THEN "user" ELSE "assistant"

-----------------------------------------------------------------------------
(* The retrieve tool: my_agent/core.py, and the loader my_rag/rag_main.py *)

collection_name == "policies"

\* n_results of collection.query.
NResults == 5

\* Documents one run of the loader adds, and the runs followed.
PolicyLines == 3
MaxLoads == 2

\* name in [col.name for col in client.list_collections()]
collection_exists(name) == name \in DOMAIN store

\* The store after client.get_or_create_collection(name=name).
get_or_create_collection(name) ==
    IF collection_exists(name)
    THEN store
    ELSE [n \in DOMAIN store \cup {name} |-> IF n = name THEN 0 ELSE store[n]]

\* collection.query(query_texts=[query], n_results=5): the nearest
\* documents, at most n_results of those the collection holds.
Query(docs, query) == [query |-> query, found |-> Min(NResults, docs)]

retrieveOthers == <<vars, itemsVars, chatVars, uiVars, providerVars, containerVars,
    espnVars>>

\* Call r lists the collections: absent, it returns "Collection not found";
\* present, it goes on to get_or_create_collection.
retrieve_check(r, query) ==
    /\ rPc[r] = "idle"
    /\ rQuery' = [rQuery EXCEPT ![r] = query]
    /\ IF collection_exists(collection_name)
       THEN /\ rPc' = [rPc EXCEPT ![r] = "found"]
            /\ rResult' = rResult
       ELSE /\ rPc' = [rPc EXCEPT ![r] = "done"]
            /\ rResult' = [rResult EXCEPT ![r] = Returned("Collection not found")]
    /\ store' = store
    /\ UNCHANGED retrieveOthers

\* Call r gets (or creates) the collection and queries it.
retrieve_query(r) ==
    /\ rPc[r] = "found"
    /\ store' = get_or_create_collection(collection_name)
    /\ rPc' = [rPc EXCEPT ![r] = "done"]
    /\ rResult' = [rResult EXCEPT ![r] =
                      Returned(Query(store'[collection_name], rQuery[r]))]
    /\ UNCHANGED <<rQuery, retrieveOthers>>

\* The caller takes the result; the slot serves the next call.
retrieve_return(r) ==
    /\ rPc[r] = "done"
    /\ rPc' = [rPc EXCEPT ![r] = "idle"]
    /\ rResult' = [rResult EXCEPT ![r] = NoResult]
    /\ rQuery' = [rQuery EXCEPT ![r] = ""]
    /\ UNCHANGED <<store, retrieveOthers>>

\* The loader, another process: get_or_create_collection, then
\* collection.add of the policy lines.
rag_main_create ==
    /\ ~ collection_exists(collection_name)
    /\ store' = get_or_create_collection(collection_name)
    /\ UNCHANGED <<rPc, rQuery, rResult, retrieveOthers>>

rag_main_add ==
    /\ collection_exists(collection_name)
    /\ store[collection_name] < MaxLoads * PolicyLines
    /\ store' = [store EXCEPT ![collection_name] = @ + PolicyLines]
    /\ UNCHANGED <<rPc, rQuery, rResult, retrieveOthers>>

\* Another process deletes the collection from the shared store.
delete_collection ==
    /\ collection_exists(collection_name)
    /\ store' = [n \in DOMAIN store \ {collection_name} |-> store[n]]
    /\ UNCHANGED <<rPc, rQuery, rResult, retrieveOthers>>

RetrieveNext ==
    \/ \E r \in Retrieves :
          \/ \E query \in Queries : retrieve_check(r, query)
          \/ retrieve_query(r)
          \/ retrieve_return(r)
    \/ rag_main_create
    \/ rag_main_add
    \/ delete_collection

RetrieveSpec == Init /\ [][RetrieveNext]_<<vars, restVars>>

\* C17: retrieve never creates the 'policies' collection, also when another
\* process creates or deletes it between the check and the
\* get_or_create_collection call: a step that brings the collection into
\* existence is never a step of a retrieve call.
C17_RetrieveNeverCreates ==
    [][(~ collection_exists(collection_name)
        /\ collection_name \in DOMAIN store') => rPc' = rPc]_<<vars, restVars>>

-----------------------------------------------------------------------------
(* The provider tools: my_mcp/sleeper_fantasy.py and my-mcp/espn_fantasy.py *)

SLEEPER_API_BASE == "https://api.sleeper.app/v1"

\* JSON values as Python sees them after response.json().
None == [t |-> "null"]
Dict(d) == [t |-> "dict", v |-> d]
List(l) == [t |-> "list", v |-> l]

\* d.get(key, default) of a Python dict.
Get(d, key, default) == IF key \in DOMAIN d THEN d[key] ELSE default

SleeperTools == {"get_user", "get_user_leagues"}
EspnTools == {"get_league_info", "get_teams"}

\* username of get_user, user_id of get_user_leagues; the ESPN tools
\* modelled take no argument.
ToolArgs(tool) ==
    CASE tool = "get_user" -> {"josh", "nobody"}
      [] tool = "get_user_leagues" -> {"u1"}
      [] OTHER -> {""}

\* The exceptions of httpx.HTTPError: an error status (raise_for_status),
\* a network failure, a timeout.
HTTPErrors ==
    {[type |-> "HTTPStatusError", status |-> 404],
     [type |-> "HTTPStatusError", status |-> 500],
     [type |-> "ConnectError"],
     [type |-> "ReadTimeout"]}

\* response.json() of a 2xx answer whose body is not JSON.
JSONDecodeError == [type |-> "JSONDecodeError"]

AttributeError == [type |-> "AttributeError"]

\* The bodies a 2xx answer of the provider carries for each tool.
Bodies(tool) ==
    CASE tool = "get_user" ->
            {Dict([user_id |-> "u1", username |-> "josh",
                   display_name |-> "Josh", avatar |-> "a1"]),
             Dict([user_id |-> "u1", username |-> "josh"]),
             None}
      [] tool = "get_user_leagues" ->
            {List(<<>>),
             List(<<[name |-> "Dynasty", league_id |-> "L1", status |-> "in_season",
                     total_rosters |-> "12", season |-> "2024", draft_id |-> "D1"]>>),
             List(<<[name |-> "Dynasty", league_id |-> "L1"], [league_id |-> "L2"]>>)}
      [] tool = "get_league_info" ->
            {Dict([id |-> 747820582, settings |-> "mSettings"])}
      [] tool = "get_teams" ->
            {Dict([teams |-> <<"Team 1", "Team 2">>]), Dict([id |-> 747820582])}

\* What the HTTP exchange of one provider call can do.
ProviderOutcomes(tool) ==
    {Returned(b) : b \in Bodies(tool)}
        \cup {Raised(e) : e \in HTTPErrors \cup {JSONDecodeError}}

\* make_sleeper_request: the decoded body, or None for any Exception.
make_sleeper_request(o) == IF o.kind = "return" THEN o.value ELSE None

get_user(username, o) ==
    LET data == make_sleeper_request(o)
    IN  IF data = None
        THEN Returned("Unable to fetch user information for username: " \o username)
        ELSE IF data.t = "dict"
             THEN Returned(<<"User ID: " \o Get(data.v, "user_id", "N/A"),
                             "Username: " \o Get(data.v, "username", "N/A"),
                             "Display Name: " \o Get(data.v, "display_name", "N/A"),
                             "Avatar ID: " \o Get(data.v, "avatar", "N/A")>>)
             ELSE Raised(AttributeError)

get_user_leagues(user_id, o) ==
    LET data == make_sleeper_request(o)
    IN  IF data = None \/ data.t # "list"
        THEN Returned("Unable to fetch leagues for user_id: " \o user_id)
        ELSE IF Len(data.v) = 0
             THEN Returned("No leagues found for user_id: " \o user_id
                              \o " in nfl 2024")
             ELSE Returned([i \in 1..Len(data.v) |->
                      <<"League Name: " \o Get(data.v[i], "name", "Unknown"),
                        "League ID: " \o Get(data.v[i], "league_id", "N/A"),
                        "Status: " \o Get(data.v[i], "status", "N/A"),
                        "Total Rosters: " \o Get(data.v[i], "total_rosters", "N/A"),
                        "Season: " \o Get(data.v[i], "season", "N/A"),
                        "Draft ID: " \o Get(data.v[i], "draft_id", "N/A")>>])

\* A make_request that answers a failed request with a text.
make_request_swallowing(o) ==
    IF o.kind = "return" THEN o ELSE Returned("Unable to fetch data from ESPN")

\* make_request: the decoded body; httpx.HTTPError is caught and re-raised,
\* any other exception passes through.
make_request(o) == IF o.kind = "return" THEN o ELSE Raised(o.exc)

\* return make_request(params)
get_league_info(o) == make_request(o)

get_teams(o) ==
    LET data == make_request(o)
    IN  IF data.kind = "raise" THEN data
        ELSE IF data.value.t = "dict"
             THEN Returned(Get(data.value.v, "teams", <<>>))
             ELSE Raised(AttributeError)

\* The request a tool sends upstream.
ToolRequest(tool, arg) ==
    CASE tool = "get_user" -> [url |-> SLEEPER_API_BASE \o "/user/" \o arg]
      [] tool = "get_user_leagues" ->
            [url |-> SLEEPER_API_BASE \o "/user/" \o arg \o "/leagues/nfl/2024"]
      [] tool = "get_league_info" -> [params |-> [view |-> "mSettings"]]
      [] tool = "get_teams" -> [params |-> [view |-> "mTeam"]]

\* What the tool makes of the outcome of its provider call.
ToolResult(tool, arg, o) ==
    CASE tool = "get_user" -> get_user(arg, o)
      [] tool = "get_user_leagues" -> get_user_leagues(arg, o)
      [] tool = "get_league_info" -> get_league_info(o)
      [] tool = "get_teams" -> get_teams(o)

providerOthers == <<vars, itemsVars, chatVars, uiVars, retrieveVars, containerVars,
    espnVars>>

\* A tool is called and sends its request.
tool_call(c, tool, arg) ==
    /\ tPc[c] = "idle"
    /\ tPc' = [tPc EXCEPT ![c] = "requested"]
    /\ tTool' = [tTool EXCEPT ![c] = [tool |-> tool, arg |-> arg]]
    /\ tRequest' = [tRequest EXCEPT ![c] = ToolRequest(tool, arg)]
    /\ UNCHANGED <<tOutcome, tResult, providerOthers>>

\* The provider call ends and the tool returns or raises.
tool_finish(c, tool, o) ==
    /\ tPc[c] = "requested"
    /\ tTool[c].tool = tool
    /\ tPc' = [tPc EXCEPT ![c] = "done"]
    /\ tOutcome' = [tOutcome EXCEPT ![c] = o]
    /\ tResult' = [tResult EXCEPT ![c] = ToolResult(tool, tTool[c].arg, o)]
    /\ UNCHANGED <<tTool, tRequest, providerOthers>>

ProviderNext ==
    \E c \in ToolCalls :
        \/ \E tool \in SleeperTools \cup EspnTools :
              \E arg \in ToolArgs(tool) : tool_call(c, tool, arg)
        \/ \E tool \in SleeperTools \cup EspnTools :
              \E o \in ProviderOutcomes(tool) : tool_finish(c, tool, o)

ProviderSpec == Init /\ [][ProviderNext]_<<vars, restVars>>

Finished(c) == tPc[c] = "done"

Failed(c) == Finished(c) /\ tOutcome[c].kind = "raise"

-----------------------------------------------------------------------------
(* The servers of the agent: Container of my_agent/containers.py *)

Servers == {"weather", "espn", "sleeper", "deps"}

\* The tools followed, each on its server.
ServerTools ==
    {[server |-> "deps", tool |-> "echo_deps"],
     [server |-> "sleeper", tool |-> "get_user"],
     [server |-> "espn", tool |-> "get_league_info"]}

\* A container that installs process_tool_call on every server.
HasProcessToolCallAll(server) == server \in Servers

\* The servers constructed with process_tool_call=process_tool_call.
HasProcessToolCall(server) == server = "deps"

\* A request sent without metadata.
NoMeta == [t |-> "none"]

DirectCall(name, tool_args) == [name |-> name, args |-> tool_args, meta |-> NoMeta]

\* The request a server sends for a tool call of a run whose deps is deps:
\* through process_tool_call where the server has one, directly otherwise.
ServerCall(server, name, tool_args, deps) ==
    IF HasProcessToolCall(server)
    THEN CallToolArgs(name, tool_args, deps)
    ELSE DirectCall(name, tool_args)

\* What the tool's own provider call can do; echo_deps makes none.
InvocationOutcomes(tool) ==
    IF tool = "echo_deps" THEN {NoResult} ELSE ProviderOutcomes(tool)

\* The tool run on the request that reached it.
InvocationResult(c, o) ==
    CASE c.name = "echo_deps" -> echo_deps(c.meta)
      [] c.name = "get_user" -> get_user(c.args, o)
      [] c.name = "get_league_info" -> get_league_info(o)

containerOthers == <<vars, itemsVars, chatVars, uiVars, retrieveVars, providerVars,
    espnVars>>

\* A run whose deps is deps calls a tool of one of its servers.
invoke(i, st, arg, deps) ==
    /\ invPc[i] = "idle"
    /\ invPc' = [invPc EXCEPT ![i] = "sent"]
    /\ inv' = [inv EXCEPT ![i] = [server |-> st.server, tool |-> st.tool,
                                    arg |-> arg, deps |-> deps]]
    /\ invCall' = [invCall EXCEPT ![i] = ServerCall(st.server, st.tool, arg, deps)]
    /\ UNCHANGED <<invOutcome, invRes, containerOthers>>

\* The tool runs on the server and its result comes back.
invoke_result(i, tool, o) ==
    /\ invPc[i] = "sent"
    /\ inv[i].tool = tool
    /\ invPc' = [invPc EXCEPT ![i] = "done"]
    /\ invOutcome' = [invOutcome EXCEPT ![i] = o]
    /\ invRes' = [invRes EXCEPT ![i] = InvocationResult(invCall[i], o)]
    /\ UNCHANGED <<inv, invCall, containerOthers>>

ContainerNext ==
    \E i \in Invocations :
        \/ \E st \in ServerTools : \E arg \in ToolArgs(st.tool) :
              \E deps \in Contexts : invoke(i, st, arg, deps)
        \/ \E st \in ServerTools : \E o \in InvocationOutcomes(st.tool) :
              invoke_result(i, st.tool, o)

ContainerSpec == Init /\ [][ContainerNext]_<<vars, restVars>>

Sent(i) == invPc[i] # "idle"

\* The tools that read nothing of the request's metadata.
ContextUnaware(tool) == tool \in SleeperTools \cup EspnTools

\* C12 as stated: every tool invocation, of a context-aware or a
\* context-unaware tool, carries the 'deps' envelope of its run.
C12_EveryInvocationCarriesEnvelope ==
    \A i \in Invocations :
        Sent(i) => invCall[i].meta = Envelope(inv[i].deps)

\* C12, amended: an invocation carries the envelope of its run exactly when
\* its server was built with process_tool_call, which is the deps server
\* alone; the tools of the other servers receive no envelope, and a
\* context-unaware tool returns the same result for the same argument and
\* the same provider outcome whatever the deps of the run.
C12_EnvelopeOnDepsServerOnly ==
    /\ \A i \in Invocations :
          Sent(i) =>
              /\ inv[i].server = "deps" => invCall[i].meta = Envelope(inv[i].deps)
              /\ inv[i].server # "deps" => invCall[i].meta = NoMeta
    /\ \A i, j \in Invocations :
          (/\ invPc[i] = "done" /\ invPc[j] = "done"
           /\ ContextUnaware(inv[i].tool)
           /\ inv[i].tool = inv[j].tool /\ inv[i].arg = inv[j].arg
           /\ invOutcome[i] = invOutcome[j])
              => invRes[i] = invRes[j]

\* get_user ran for two runs of different deps with the same argument and
\* provider answer, without envelope, and returned the same text.
C12_Witness ==
    \E i, j \in Invocations :
        /\ invPc[i] = "done" /\ invPc[j] = "done"
        /\ inv[i].tool = "get_user" /\ inv[j].tool = "get_user"
        /\ inv[i].arg = inv[j].arg /\ invOutcome[i] = invOutcome[j]
        /\ invOutcome[i].kind = "return" /\ invOutcome[i].value # None
        /\ inv[i].deps = NoneCtx /\ inv[j].deps = IntCtx(42)
        /\ invCall[i].meta = NoMeta /\ invCall[j].meta = NoMeta
        /\ invRes[i] = invRes[j]

-----------------------------------------------------------------------------
(* The ESPN tools with arguments, and get_standings: my-mcp/espn_fantasy.py *)

\* An int passed for an Optional[int] argument; None when it is omitted.
IntArg(n) == [t |-> "int", v |-> n]

OptionalInts == {None, IntArg(0), IntArg(1), IntArg(3)}

\* if x: of an Optional[int], false for None and for 0.
Truthy(x) == x # None /\ x.v # 0

\* params with params[key] = x added when the condition of the if holds.
SetIf(params, cond, key, x) ==
    IF cond THEN params @@ (key :> x.v) ELSE params

\* A 2xx answer of the league endpoint for the views of these tools.
LeagueBodies ==
    {Dict([id |-> 747820582, schedule |-> <<"matchup 1", "matchup 2">>]),
     Dict([id |-> 747820582])}

EspnOutcomes ==
    {Returned(b) : b \in LeagueBodies}
        \cup {Raised(e) : e \in HTTPErrors \cup {JSONDecodeError}}

espnOthers == <<vars, itemsVars, chatVars, uiVars, retrieveVars, providerVars,
    containerVars>>

get_rosters(team_id, o) ==
    /\ espnCall' = [tool |-> "get_rosters", team_id |-> team_id]
    /\ espnParams' = SetIf([view |-> "mRoster"], Truthy(team_id),
                           "rosterForTeamId", team_id)
    /\ espnOutcome' = o
    /\ espnRes' = make_request(o)
    /\ UNCHANGED espnOthers

get_matchups(week, o) ==
    /\ espnCall' = [tool |-> "get_matchups", week |-> week]
    /\ espnParams' = SetIf([view |-> "mMatchup"], Truthy(week),
                           "scoringPeriodId", week)
    /\ espnOutcome' = o
    /\ espnRes' = LET data == make_request(o)
                  IN  IF data.kind = "raise" THEN data
                      ELSE Returned(Get(data.value.v, "schedule", <<>>))
    /\ UNCHANGED espnOthers

get_player_stats(week, o) ==
    /\ espnCall' = [tool |-> "get_player_stats", week |-> week]
    /\ espnParams' = SetIf([view |-> "kona_player_info"], Truthy(week),
                           "scoringPeriodId", week)
    /\ espnOutcome' = o
    /\ espnRes' = make_request(o)
    /\ UNCHANGED espnOthers

AllDataViews == <<"mTeam", "mRoster", "mMatchup", "mSettings", "mStandings">>

get_all_data(week, team_id, o) ==
    /\ espnCall' = [tool |-> "get_all_data", week |-> week, team_id |-> team_id]
    /\ espnParams' = SetIf(SetIf([view |-> AllDataViews], Truthy(week),
                                 "scoringPeriodId", week),
                           Truthy(team_id), "rosterForTeamId", team_id)
    /\ espnOutcome' = o
    /\ espnRes' = make_request(o)
    /\ UNCHANGED espnOthers

DetailedDataViews ==
    <<"mDraftDetail", "mLiveScoring", "mMatchupScore", "mPendingTransactions",
      "mPositionalRatings", "mRoster", "mSettings", "mTeam", "modular", "mNav">>

get_detailed_data(week, team_id, o) ==
    /\ espnCall' = [tool |-> "get_detailed_data", week |-> week, team_id |-> team_id]
    /\ espnParams' = SetIf(SetIf([view |-> DetailedDataViews], Truthy(week),
                                 "scoringPeriodId", week),
                           Truthy(team_id), "rosterForTeamId", team_id)
    /\ espnOutcome' = o
    /\ espnRes' = make_request(o)
    /\ UNCHANGED espnOthers

\* Length of the longest team list the provider returns.
MaxTeams == 3

\* Teams as the mTeam view gives them; some lack record, overall or points.
TeamPool ==
    {[id |-> 1, record |-> [overall |-> [wins |-> 2]], points |-> 100],
     [id |-> 2, record |-> [overall |-> [wins |-> 2]], points |-> 120],
     [id |-> 3, record |-> [overall |-> [wins |-> 1]], points |-> 150],
     [id |-> 4, points |-> 90],
     [id |-> 5, record |-> [overall |-> [wins |-> 1]]],
     [id |-> 6, record |-> [overall |-> [wins |-> 2]], points |-> 100],
     [id |-> 7, record |-> [home |-> [wins |-> 5]], points |-> 0]}

\* The lists of distinct teams of at most MaxTeams teams.
TeamLists ==
    UNION {{l \in [1..n -> TeamPool] : \A i, j \in 1..n : i # j => l[i].id # l[j].id}
              : n \in 0..MaxTeams}

StandingsOutcomes ==
    {Returned(Dict([teams |-> l])) : l \in TeamLists}
        \cup {Returned(Dict([id |-> 747820582]))}
        \cup {Raised(e) : e \in HTTPErrors \cup {JSONDecodeError}}

\* x.get("record", {}).get("overall", {}).get("wins", 0)
Wins(x) == Get(Get(Get(x, "record", <<>>), "overall", <<>>), "wins", 0)

\* x.get("points", 0)
Points(x) == Get(x, "points", 0)

\* A key that compares wins alone.
KeyLessWinsOnly(a, b) == Wins(a) < Wins(b)

\* The sort key (wins, points) of a is less than that of b.
KeyLess(a, b) ==
    \/ Wins(a) < Wins(b)
    \/ Wins(a) = Wins(b) /\ Points(a) < Points(b)

\* x put into a list sorted with reverse=True: before the first team of a
\* smaller key, so after the teams of an equal key (the sort is stable).
RECURSIVE Insert(_, _)
Insert(x, l) ==
    IF Len(l) = 0 THEN <<x>>
    ELSE IF KeyLess(Head(l), x) THEN <<x>> \o l
    ELSE <<Head(l)>> \o Insert(x, Tail(l))

\* sorted(teams, key=..., reverse=True)
RECURSIVE sorted_teams(_)
sorted_teams(teams) ==
    IF Len(teams) = 0 THEN <<>>
    ELSE Insert(teams[Len(teams)], sorted_teams(SubSeq(teams, 1, Len(teams) - 1)))

get_standings(o) ==
    /\ espnCall' = [tool |-> "get_standings"]
    /\ espnParams' = [view |-> "mTeam"]
    /\ espnOutcome' = o
    /\ espnRes' = LET data == make_request(o)
                  IN  IF data.kind = "raise" THEN data
                      ELSE Returned(sorted_teams(Get(data.value.v, "teams", <<>>)))
    /\ UNCHANGED espnOthers

EspnNext ==
    \/ \E team_id \in OptionalInts : \E o \in EspnOutcomes : get_rosters(team_id, o)
    \/ \E week \in OptionalInts : \E o \in EspnOutcomes : get_matchups(week, o)
    \/ \E week \in OptionalInts : \E o \in EspnOutcomes : get_player_stats(week, o)
    \/ \E week, team_id \in OptionalInts : \E o \in EspnOutcomes :
          get_all_data(week, team_id, o)
    \/ \E week, team_id \in OptionalInts : \E o \in EspnOutcomes :
          get_detailed_data(week, team_id, o)
    \/ \E o \in StandingsOutcomes : get_standings(o)

EspnSpec == Init /\ [][EspnNext]_<<vars, restVars>>

\* The teams the provider returned to the last call.
ProviderTeams == Get(espnOutcome.value.v, "teams", <<>>)

Standings == espnCall.tool = "get_standings" /\ espnOutcome.kind = "return"

\* C22: get_standings returns a permutation of the provider's teams, ordered
\* by overall wins descending and, among equal wins, by points descending,
\* a missing record or missing points counting as 0.
C22_StandingsSorted ==
    Standings =>
        /\ espnRes.kind = "return"
        /\ Len(espnRes.value) = Len(ProviderTeams)
        /\ \A x \in TeamPool :
              Cardinality({i \in 1..Len(espnRes.value) : espnRes.value[i].id = x.id
                                                          /\ espnRes.value[i] = x})
                  = Cardinality({i \in 1..Len(ProviderTeams) : ProviderTeams[i].id = x.id})
        /\ \A i, j \in 1..Len(espnRes.value) :
              i < j =>
                  LET a == espnRes.value[i]
                      b == espnRes.value[j]
                      winsA == IF "record" \in DOMAIN a /\ "overall" \in DOMAIN a.record
                               THEN a.record.overall.wins ELSE 0
                      winsB == IF "record" \in DOMAIN b /\ "overall" \in DOMAIN b.record
                               THEN b.record.overall.wins ELSE 0
                      pointsA == IF "points" \in DOMAIN a THEN a.points ELSE 0
                      pointsB == IF "points" \in DOMAIN b THEN b.points ELSE 0
                  IN  \/ winsA > winsB
                      \/ winsA = winsB /\ pointsA >= pointsB

\* Three teams arrived out of order, one without a record and two with the
\* same wins, and came back reordered.
C22_Witness ==
    /\ Standings
    /\ Len(ProviderTeams) = 3
    /\ ProviderTeams[1].id = 4 /\ ProviderTeams[2].id = 1 /\ ProviderTeams[3].id = 2
    /\ espnRes.kind = "return"
    /\ espnRes.value[1].id = 2 /\ espnRes.value[2].id = 1 /\ espnRes.value[3].id = 4

ArgumentTools ==
    {"get_rosters", "get_matchups", "get_player_stats", "get_all_data",
     "get_detailed_data"}

\* The argument was supplied to the last call: passed, and not None.
Supplied(arg) == arg \in DOMAIN espnCall /\ espnCall[arg] # None

\* C23: in get_rosters, get_matchups, get_player_stats, get_all_data and
\* get_detailed_data the request carries rosterForTeamId exactly when team_id
\* is supplied (any integer) and scoringPeriodId exactly when week is
\* supplied, each with the supplied value.
C23_ParamsExactlyWhenSupplied ==
    espnCall.tool \in ArgumentTools =>
        /\ "rosterForTeamId" \in DOMAIN espnParams <=> Supplied("team_id")
        /\ Supplied("team_id") => espnParams["rosterForTeamId"] = espnCall.team_id.v
        /\ "scoringPeriodId" \in DOMAIN espnParams <=> Supplied("week")
        /\ Supplied("week") => espnParams["scoringPeriodId"] = espnCall.week.v
====
